---------------------------- MODULE Spec2Model ----------------------------
(***************************************************************************)
(* Model of the extract-application-quality command of gravitee-toolbox:   *)
(* the criteria registry, the per-application fan-out/fan-in of criterion  *)
(* evaluators, the reactive pipeline built by definition() and the CSV     *)
(* reporter subscribed to it; and of the pipeline of the import-api        *)
(* command (search, read, import, deploy).                                 *)
(*                                                                         *)
(* JavaScript runs every callback to completion, so one action is one      *)
(* callback of the pipeline with everything it triggers synchronously.     *)
(***************************************************************************)
EXTENDS Integers, Sequences, FiniteSets, TLC

VARIABLES
    argv,              \* parsed command line (read-only after construction)
    listing,           \* what the management service will list, in its order
    pc,                \* position of the subscribed pipeline
    failure,           \* error delivered to the subscriber, "none" if none
    discovered,        \* applications emitted by discovery so far, in order
    acc,               \* per application: accumulator of reduce()
    inflight,          \* per application: references whose evaluator is unresolved
    searches,          \* searchHits calls issued so far
    emissions,         \* reports emitted by evaluateCriteria, in emission order
    cancelled,         \* applications whose evaluation was unsubscribed unresolved
    evaluatorFailed,   \* applications one of whose evaluators failed
    apiCalls,          \* calls made to the management API, in order
    qualityApps,       \* ExtractApplicationQualityCSVReporter.qualityApps
    stdout,            \* lines written by displayRaw
    _criteria,         \* memo of getCriteria()
    _enabledCriteria,  \* memo of getEnabledCriteria()
    responses,         \* per application: what take() let through of its hit stream
    probe,             \* input handed to one evaluator on its own
    probeResult,       \* values the probed evaluator's stream emitted
    importArgv,        \* import-api: parsed command line
    apiListing,        \* import-api: the APIs the search will emit, in order
    importPc,          \* import-api: position of the subscribed pipeline
    collected,         \* import-api: buffer of toArray()
    importCalls,       \* import-api: calls made to the management API, in order
    importedApi,       \* import-api: the API emitted by import
    displayedError,    \* import-api: what displayError was given
    exitCode           \* import-api: code passed to process.exit

\* state of the evaluator probes and of the import-api command
probeVars == <<probe, probeResult>>
importVars ==
    <<importArgv, apiListing, importPc, collected, importCalls, importedApi,
      displayedError, exitCode>>
otherVars == <<probeVars, importVars>>

\* state of the extract-application-quality command
qualityVars ==
    <<argv, listing, pc, failure, discovered, acc, inflight, searches, emissions,
      cancelled, evaluatorFailed, apiCalls, qualityApps, stdout, _criteria,
      _enabledCriteria, responses>>

vars == <<qualityVars, otherVars>>

-----------------------------------------------------------------------------
(* Bounds of the model *)

\* most applications the management service lists in one run
MaxApps == 2
\* most hits one searchHits stream emits
MaxHits == 2
\* most entries of a catalog handed to the registry on its own
MaxCriteria == 3

\* longest application name handed to the naming-convention evaluator alone
MaxNameLength == 9
\* longest description handed to the minimum-length evaluator alone
MaxDescriptionLength == 40
\* most APIs one search of the import-api command returns
MaxApis == 2

(* Program constants *)

DESCRIPTION_MIN_LENGTH == 30
LIST_APPLICATIONS_TIMEOUT == 30000
ONLY_ONE_ES_RESULT == 1

-----------------------------------------------------------------------------
(* Values *)

\* an unset JavaScript field (undefined) and a set one
None == <<>>
Some(v) == <<v>>

\* the element of a one-element set; {e(x) : x \in {v}} binds x to the value of
\* v, so that e uses a value computed once
Only(S) == CHOOSE x \in S : TRUE

\* UTF-16 code units of the strings that get compared
CodeUnits ==
    ("APP-DF01" :> <<65, 80, 80, 45, 68, 70, 48, 49>>) @@
    ("APP-DF02" :> <<65, 80, 80, 45, 68, 70, 48, 50>>) @@
    ("APP-R00"  :> <<65, 80, 80, 45, 82, 48, 48>>) @@
    ("APP-DF"   :> <<65, 80, 80, 45, 68, 70>>)

References == DOMAIN CodeUnits

RECURSIVE LexCompare(_, _)
LexCompare(l, r) ==
    IF l = <<>> /\ r = <<>> THEN 0
    ELSE IF l = <<>> THEN -1
    ELSE IF r = <<>> THEN 1
    ELSE IF Head(l) < Head(r) THEN -1
    ELSE IF Head(l) > Head(r) THEN 1
    ELSE LexCompare(Tail(l), Tail(r))

\* StringUtils.compare(left, right): negative, zero or positive
StringUtils_compare(left, right) ==
    Only({LexCompare(l, r) : l \in {CodeUnits[left]}, r \in {CodeUnits[right]}})

\* Array.prototype.sort((left, right) => StringUtils.compare(left.reference, right.reference)):
\* a stable sort of records by their reference
RECURSIVE InsertByReference(_, _)
InsertByReference(x, sorted) ==
    IF sorted = <<>> THEN <<x>>
    ELSE IF StringUtils_compare(x.reference, Head(sorted).reference) < 0
         THEN <<x>> \o sorted
         ELSE <<Head(sorted)>> \o InsertByReference(x, Tail(sorted))

RECURSIVE sortByReference(_)
sortByReference(s) ==
    IF s = <<>> THEN <<>>
    ELSE Only({InsertByReference(s[Len(s)], rest) :
                  rest \in {sortByReference(SubSeq(s, 1, Len(s) - 1))}})


-----------------------------------------------------------------------------
(* Applications known to the management service *)

WordChars ==
    {"a","b","c","d","e","f","g","h","i","j","k","l","m","n","o","p","q","r",
     "s","t","u","v","w","x","y","z","A","B","C","D","E","F","G","H","I","J",
     "K","L","M","N","O","P","Q","R","S","T","U","V","W","X","Y","Z","0","1",
     "2","3","4","5","6","7","8","9","_"}

\* the characters of each application name
NameChars ==
    ("Billing - Invoicing - FR" :>
        <<"B","i","l","l","i","n","g"," ","-"," ","I","n","v","o","i","c","i",
          "n","g"," ","-"," ","F","R">>) @@
    ("invalid_name!" :>
        <<"i","n","v","a","l","i","d","_","n","a","m","e","!">>) @@
    ("Shop - FR - x y" :>
        <<"S","h","o","p"," ","-"," ","F","R"," ","-"," ","x"," ","y">>)

\* id, name and description length of each application
Applications ==
    ("A" :> [id |-> "A", name |-> "Billing - Invoicing - FR", descriptionLength |-> 30]) @@
    ("B" :> [id |-> "B", name |-> "invalid_name!", descriptionLength |-> 29]) @@
    ("C" :> [id |-> "C", name |-> "Shop - FR - x y", descriptionLength |-> 31])

AppIds == DOMAIN Applications

\* meta.total values a hit may carry
Totals == {0, 3}

-----------------------------------------------------------------------------
(* APP_NAME_REGEX = /^(\w+( \w+)* \- )?\w+( \w+)*( \- \w+)?$/ as an automaton. *)
(* States: 0 start; 1 in a word of block 1; 2 after a space in block 1;        *)
(* 3 after " -"; 4 after " - "; 5 in a word of block 2; 6 after a space in     *)
(* block 2; 7 after the second " -"; 8 after the second " - "; 9 in the word   *)
(* of block 3; 10 dead.  Blocks 1 and 2 are word( word)*, block 3 is a word.   *)

RegexDead == 10

RegexStep(q, ch) ==
    LET w == ch \in WordChars
        sp == ch = " "
        da == ch = "-"
    IN  CASE q = 0 -> IF w THEN 1 ELSE RegexDead
          [] q = 1 -> IF w THEN 1 ELSE IF sp THEN 2 ELSE RegexDead
          [] q = 2 -> IF w THEN 1 ELSE IF da THEN 3 ELSE RegexDead
          [] q = 3 -> IF sp THEN 4 ELSE RegexDead
          [] q = 4 -> IF w THEN 5 ELSE RegexDead
          [] q = 5 -> IF w THEN 5 ELSE IF sp THEN 6 ELSE RegexDead
          [] q = 6 -> IF w THEN 5 ELSE IF da THEN 7 ELSE RegexDead
          [] q = 7 -> IF sp THEN 8 ELSE RegexDead
          [] q = 8 -> IF w THEN 9 ELSE RegexDead
          [] q = 9 -> IF w THEN 9 ELSE RegexDead
          [] OTHER -> RegexDead

\* the automaton run over chars from state q: the state after the first
\* character is bound to next, then the rest is run from it
RECURSIVE RegexRun(_, _)
RegexRun(q, chars) ==
    IF chars = <<>> THEN q
    ELSE Only({RegexRun(next, Tail(chars)) : next \in {RegexStep(q, Head(chars))}})

\* mutant of APP_NAME_REGEX: the optional country group is left out
APP_NAME_REGEX_NoCountry(chars) == RegexRun(0, chars) \in {1, 5}

APP_NAME_REGEX(chars) == RegexRun(0, chars) \in {1, 5, 9}

\* StringUtils.matches(actual, regex)
StringUtils_matches(actual) == APP_NAME_REGEX(NameChars[actual])

-----------------------------------------------------------------------------
(* Criteria registry *)

\* the object literal built by getCriteria(), in Object.values() order
CriteriaLiteral ==
    << [reference |-> "APP-DF01", description |-> "Name's naming convention complied",
        atRuntime |-> FALSE, enabled |-> TRUE, evaluate |-> "nameNamingConvention"],
       [reference |-> "APP-DF02", description |-> "Description's length higher than 30",
        atRuntime |-> FALSE, enabled |-> TRUE, evaluate |-> "descriptionMinLength"],
       [reference |-> "APP-R00", description |-> "Application usage at runtime",
        atRuntime |-> TRUE, enabled |-> TRUE, evaluate |-> "appUsage"] >>

\* getCriteria(): the memo when set, else the literal (which becomes the memo)
getCriteria(memo) == IF memo # None THEN memo[1] ELSE CriteriaLiteral

runtimeEvaluationEnabled(av) == av.evaluateRuntime

\* mutant of criteriaFilter: the "not a runtime criterion" alternative is lost
criteriaFilterRuntimeOnly(criteria, av) ==
    criteria.enabled /\ criteria.atRuntime = runtimeEvaluationEnabled(av)

\* mutant of criteriaFilter: only the enabled flag is looked at
criteriaFilterEnabledOnly(criteria, av) == criteria.enabled

\* the predicate handed to filter() by getEnabledCriteria()
criteriaFilter(criteria, av) ==
    criteria.enabled /\
        (~criteria.atRuntime \/ criteria.atRuntime = runtimeEvaluationEnabled(av))

\* s back to front
Reversed(s) == [i \in 1..Len(s) |-> s[Len(s) + 1 - i]]

\* mutant of computeEnabledCriteria: the comparator's arguments are swapped
computeEnabledCriteriaSwapped(catalog, av) ==
    Reversed(sortByReference(SelectSeq(catalog, LAMBDA c : criteriaFilter(c, av))))

\* the value getEnabledCriteria() computes when its memo is unset
computeEnabledCriteria(catalog, av) ==
    sortByReference(SelectSeq(catalog, LAMBDA c : criteriaFilter(c, av)))

\* mutant of getEnabledCriteria: a set memo is reversed in place before it is
\* returned
getEnabledCriteriaReversing(memoEnabled, memoCriteria, av) ==
    IF memoEnabled # None THEN Reversed(memoEnabled[1])
    ELSE computeEnabledCriteria(getCriteria(memoCriteria), av)

\* getEnabledCriteria(): the memo when set, else the filtered, sorted catalog
getEnabledCriteria(memoEnabled, memoCriteria, av) ==
    IF memoEnabled # None THEN memoEnabled[1]
    ELSE computeEnabledCriteria(getCriteria(memoCriteria), av)

-----------------------------------------------------------------------------
(* Criterion evaluators.  The two local ones return Rx.of(value): one value, *)
(* emitted and completed at subscription.                                    *)

evaluateNamingConvention(actual) == StringUtils_matches(actual)

\* mutant of evaluateMinimumLength: a strict comparison
evaluateMinimumLengthStrict(expected, actual) == expected < actual

evaluateMinimumLength(expected, actual) == expected <= actual

\* new QualityCriterion(description, reference, complied)
QualityCriterion(description, reference, complied) ==
    [description |-> description, reference |-> reference, complied |-> complied]

\* the searchHits call of evaluateUsage
UsageQuery(app, av) ==
    [index |-> av.elasticsearchIndex, from |-> av.evaluateRuntimeFrom,
     to |-> av.evaluateRuntimeTo, terms |-> <<"application", app.id>>,
     pageSize |-> ONLY_ONE_ES_RESULT]

\* take(ONLY_ONE_ES_RESULT) then map(hit => hit.meta.total > 0) on a hit stream
takeOnlyOne(hits) ==
    SubSeq(hits, 1, IF Len(hits) < ONLY_ONE_ES_RESULT
                    THEN Len(hits) ELSE ONLY_ONE_ES_RESULT)

evaluateUsage(hits) ==
    LET taken == takeOnlyOne(hits)
    IN  [i \in 1..Len(taken) |-> taken[i].meta.total > 0]

\* the hit streams searchHits may produce
RECURSIVE SeqsUpTo(_, _)
SeqsUpTo(S, n) ==
    IF n = 0 THEN {<<>>}
    ELSE LET shorter == SeqsUpTo(S, n - 1)
         IN  shorter \cup {Append(q, x) : q \in {t \in shorter : Len(t) = n - 1}, x \in S}

HitStreams == SeqsUpTo({[meta |-> [total |-> t]] : t \in Totals}, MaxHits)

-----------------------------------------------------------------------------
(* Resource evaluation: evaluateCriteria(app, managementApi, elasticsearch) *)

\* criteria.evaluate(app, managementApi, elasticsearch) at subscription, inside
\* the inner flatMap: a local criterion emits its value and completes at once;
\* appUsage calls elasticsearch.searchHits, which throws when elasticsearch is
\* undefined and otherwise leaves the evaluator unresolved
evaluateOne(app, criteria, av, st) ==
    IF criteria.evaluate = "appUsage"
    THEN IF ~av.elasticsearchUrl
         THEN [st EXCEPT !.thrown = TRUE]
         ELSE [st EXCEPT !.pending = @ \cup {criteria.reference},
                         !.queries = Append(@, UsageQuery(app, av))]
    ELSE LET complied ==
                 IF criteria.evaluate = "nameNamingConvention"
                 THEN evaluateNamingConvention(app.name)
                 ELSE evaluateMinimumLength(DESCRIPTION_MIN_LENGTH, app.descriptionLength)
         IN  [st EXCEPT !.acc = Append(@,
                 QualityCriterion(criteria.description, criteria.reference, complied))]

\* Rx.from(getEnabledCriteria()).pipe(flatMap(...)): the criteria are subscribed in
\* array order, synchronously, until one throws
RECURSIVE fanOut(_, _, _, _)
fanOut(app, criteriaList, av, st) ==
    IF criteriaList = <<>> \/ st.thrown THEN st
    ELSE fanOut(app, Tail(criteriaList), av, evaluateOne(app, Head(criteriaList), av, st))

FanOutStart == [acc |-> <<>>, pending |-> {}, queries |-> <<>>, thrown |-> FALSE]

\* mutant of reduceCompleted: scan() in place of reduce(), an emission on every
\* accumulation
scanEmits(pending) == TRUE

\* reduce() emits its accumulator when its source completes, that is when every
\* inner evaluator stream has completed
reduceCompleted(pending) == pending = {}

\* mutant of sortQuality: the comparator's arguments are swapped
sortQualitySwapped(quality) == Reversed(sortByReference(quality))

\* quality.sort((left, right) => StringUtils.compare(left.reference, right.reference))
sortQuality(quality) == sortByReference(quality)

\* the object emitted by evaluateCriteria
Report(app, quality) == [app |-> app, quality |-> sortQuality(quality)]

-----------------------------------------------------------------------------
(* ExtractApplicationQualityCSVReporter.  r is the reporter with the console: *)
(* [qualityApps, stdout].                                                     *)

\* mutant of doNext: unshift in place of push
doNextUnshift(r, next) == [r EXCEPT !.qualityApps = <<next>> \o @]

\* mutant of doNext: the row is written as soon as the report arrives
doNextStreaming(r, next) ==
    [r EXCEPT !.qualityApps = Append(@, next),
              !.stdout = Append(@, <<next.app.id, next.app.name>> \o
                  [i \in 1..Len(next.quality) |-> next.quality[i].complied])]

doNext(r, next) == [r EXCEPT !.qualityApps = Append(@, next)]

\* the header and one raw line per element of qualityApps; a line is the
\* sequence of fields that CSV_SEPARATOR joins
HeaderLine(enabled) ==
    <<"Application id", "Application name">> \o
        [i \in 1..Len(enabled) |-> enabled[i].reference]

RowLine(appQuality) ==
    <<appQuality.app.id, appQuality.app.name>> \o
        [i \in 1..Len(appQuality.quality) |-> appQuality.quality[i].complied]

\* mutant of doComplete: the rows are written last report first
doCompleteBackwards(r, enabled) ==
    [r EXCEPT !.stdout = @ \o <<HeaderLine(enabled)>> \o
                  [i \in 1..Len(r.qualityApps) |->
                      RowLine(r.qualityApps[Len(r.qualityApps) + 1 - i])]]

doComplete(r, enabled) ==
    [r EXCEPT !.stdout = @ \o <<HeaderLine(enabled)>> \o
                  [i \in 1..Len(r.qualityApps) |-> RowLine(r.qualityApps[i])]]

\* CliCommandReporter.error: the failure is displayed, nothing is written raw
reporterError(r, error) == r

-----------------------------------------------------------------------------
(* The pipeline of definition() *)

\* what discovery emits: getApplication(id) emits the application when the id
\* resolves, listApplications emits the service's listing in its order
Source(av, lst) ==
    IF av.filterById # ""
    THEN IF av.filterById \in AppIds THEN <<av.filterById>> ELSE <<>>
    ELSE lst

\* mutant of Unsubscribe: the inner subscriptions outlive the error
KeepSubscribed(infl) == infl

\* an error ends the outer flatMap: every inner subscription is unsubscribed
Unsubscribe(infl) == [a \in DOMAIN infl |-> {}]

\* mutant of mergeCompleted: the inner observables are not waited for
mergeCompletedEarly(sourceCompleted, infl) == sourceCompleted

\* the outer flatMap completes when its source has completed and no inner
\* observable is still active
mergeCompleted(sourceCompleted, infl) ==
    sourceCompleted /\ \A a \in DOMAIN infl : infl[a] = {}

Reporter == [qualityApps |-> qualityApps, stdout |-> stdout]

\* an error notification reaches the subscriber
PipelineError(kind) ==
    /\ pc' = "error"
    /\ failure' = kind
    /\ cancelled' = {a \in AppIds : inflight[a] # {}}
    /\ inflight' = Unsubscribe(inflight)
    /\ LET r == reporterError(Reporter, kind)
       IN  qualityApps' = r.qualityApps /\ stdout' = r.stdout

\* the reporter after a report is delivered and, when that ends the pipeline,
\* after the complete notification
Deliver(r, report, completes, enabled) ==
    LET r1 == doNext(r, report)
    IN  IF completes THEN doComplete(r1, enabled) ELSE r1

-----------------------------------------------------------------------------
(* Initial state: the command constructed and its arguments parsed *)

\* no evaluator is probed, the import-api command is not run
ProbeIdle == probe = None /\ probeResult = None

ImportIdle ==
    /\ importArgv = None
    /\ apiListing = <<>>
    /\ importPc = "idle"
    /\ collected = <<>>
    /\ importCalls = <<>>
    /\ importedApi = None
    /\ displayedError = None
    /\ exitCode = None

Distinct(q) == \A i, j \in 1..Len(q) : i # j => q[i] # q[j]

Argvs ==
    { [filterById |-> f, filterByName |-> n, delayPeriod |-> d,
       evaluateRuntime |-> rt, evaluateRuntimeFrom |-> "now-1M",
       evaluateRuntimeTo |-> "now", elasticsearchUrl |-> es,
       elasticsearchIndex |-> "gravitee-request"] :
        f \in {"", "A", "missing"}, n \in {"", "shop"}, d \in {200, 1000},
        rt \in BOOLEAN, es \in BOOLEAN }

Init ==
    /\ argv \in Argvs
    /\ listing \in {q \in SeqsUpTo(AppIds, MaxApps) :
                        Distinct(q) /\ (argv.filterById # "" => q = <<>>)}
    /\ pc = "start"
    /\ failure = "none"
    /\ discovered = <<>>
    /\ acc = [a \in AppIds |-> <<>>]
    /\ inflight = [a \in AppIds |-> {}]
    /\ searches = <<>>
    /\ emissions = <<>>
    /\ cancelled = {}
    /\ evaluatorFailed = {}
    /\ apiCalls = <<>>
    /\ qualityApps = <<>>
    /\ stdout = <<>>
    /\ _criteria = None
    /\ _enabledCriteria = None
    /\ responses = [a \in AppIds |-> None]
    /\ ProbeIdle
    /\ ImportIdle

-----------------------------------------------------------------------------
(* Actions *)

\* mutant of discoveryCall: the branches of the conditional are exchanged
discoveryCallExchanged(av) ==
    IF av.filterById = ""
    THEN [op |-> "getApplication", id |-> av.filterById]
    ELSE [op |-> "listApplications", byName |-> av.filterByName,
          delayPeriod |-> av.delayPeriod, timeout |-> LIST_APPLICATIONS_TIMEOUT]

\* the call the first flatMap makes once login has emitted its token
discoveryCall(av) ==
    IF av.filterById # ""
    THEN [op |-> "getApplication", id |-> av.filterById]
    ELSE [op |-> "listApplications", byName |-> av.filterByName,
          delayPeriod |-> av.delayPeriod, timeout |-> LIST_APPLICATIONS_TIMEOUT]

\* mutant of definition: the discovery call is made while the pipeline is built
\* instead of inside the flatMap that waits for the token
definitionEager ==
    /\ pc = "start"
    /\ pc' = "login"
    /\ apiCalls' = apiCalls \o <<[op |-> "login"], discoveryCall(argv)>>
    /\ UNCHANGED <<otherVars, responses, argv, listing, failure, discovered, acc,
                   inflight, searches, emissions, cancelled, evaluatorFailed,
                   qualityApps, stdout, _criteria, _enabledCriteria>>

\* definition(): the pipeline is built and subscribed, which calls login
definition ==
    /\ pc = "start"
    /\ pc' = "login"
    /\ apiCalls' = Append(apiCalls, [op |-> "login"])
    /\ UNCHANGED <<otherVars, responses, argv, listing, failure, discovered, acc, inflight, searches,
                   emissions, cancelled, evaluatorFailed, qualityApps, stdout,
                   _criteria, _enabledCriteria>>

\* login emits the token: the first flatMap asks for the application(s)
LoginSucceeds ==
    /\ pc = "login"
    /\ pc' = "discovery"
    /\ apiCalls' = Append(apiCalls, discoveryCall(argv))
    /\ UNCHANGED <<otherVars, responses, argv, listing, failure, discovered, acc, inflight, searches,
                   emissions, cancelled, evaluatorFailed, qualityApps, stdout,
                   _criteria, _enabledCriteria>>

LoginFails ==
    /\ pc = "login"
    /\ PipelineError("AuthFailure")
    /\ UNCHANGED <<otherVars, responses, argv, listing, discovered, acc, searches, emissions,
                   evaluatorFailed, apiCalls, _criteria, _enabledCriteria>>

\* discovery emits the next application: tap, then flatMap subscribes
\* evaluateCriteria(app), whose local evaluators resolve within the same callback
EmitApplication ==
    /\ pc = "discovery"
    /\ Len(discovered) < Len(Source(argv, listing))
    /\ \E id \in {Source(argv, listing)[Len(discovered) + 1]},
          enabled \in {getEnabledCriteria(_enabledCriteria, _criteria, argv)} :
       \E app \in {Applications[id]} :
       \E st \in {fanOut(app, enabled, argv, FanOutStart)} :
           /\ discovered' = Append(discovered, id)
           /\ _criteria' = Some(getCriteria(_criteria))
           /\ _enabledCriteria' = Some(enabled)
           /\ searches' = searches \o st.queries
           /\ IF st.thrown
              THEN /\ PipelineError("EvaluatorFailure")
                   /\ evaluatorFailed' = evaluatorFailed \cup {id}
                   /\ UNCHANGED <<acc, emissions>>
              ELSE /\ acc' = [acc EXCEPT ![id] = st.acc]
                   /\ inflight' = [inflight EXCEPT ![id] = st.pending]
                   /\ IF reduceCompleted(st.pending)
                      THEN \E report \in {Report(app, st.acc)} :
                           \E r \in {Deliver(Reporter, report, FALSE, enabled)} :
                               /\ emissions' = Append(emissions, report)
                               /\ qualityApps' = r.qualityApps
                               /\ stdout' = r.stdout
                      ELSE UNCHANGED <<emissions, qualityApps, stdout>>
                   /\ UNCHANGED <<pc, failure, cancelled, evaluatorFailed>>
    /\ UNCHANGED <<otherVars, responses, argv, listing, apiCalls>>

\* discovery completes: the pipeline completes at once when no evaluation is
\* in flight, else once the last one resolves
DiscoveryCompletes ==
    /\ pc = "discovery"
    /\ Len(discovered) = Len(Source(argv, listing))
    /\ argv.filterById # "" => argv.filterById \in AppIds
    /\ IF mergeCompleted(TRUE, inflight)
       THEN \E enabled \in {getEnabledCriteria(_enabledCriteria, _criteria, argv)} :
            \E r \in {doComplete(Reporter, enabled)} :
                /\ pc' = "complete"
                /\ _criteria' = Some(getCriteria(_criteria))
                /\ _enabledCriteria' = Some(enabled)
                /\ qualityApps' = r.qualityApps
                /\ stdout' = r.stdout
       ELSE /\ pc' = "draining"
            /\ UNCHANGED <<_criteria, _enabledCriteria, qualityApps, stdout>>
    /\ UNCHANGED <<otherVars, responses, argv, listing, failure, discovered, acc, inflight, searches,
                   emissions, cancelled, evaluatorFailed, apiCalls>>

\* getApplication(id) fails: the identifier does not resolve
GetApplicationNotFound ==
    /\ pc = "discovery"
    /\ argv.filterById # ""
    /\ argv.filterById \notin AppIds
    /\ PipelineError("NotFound")
    /\ UNCHANGED <<otherVars, responses, argv, listing, discovered, acc, searches, emissions,
                   evaluatorFailed, apiCalls, _criteria, _enabledCriteria>>

\* listApplications fails: the overall timeout fires before the listing ends
ListApplicationsTimeout ==
    /\ pc = "discovery"
    /\ argv.filterById = ""
    /\ PipelineError("Timeout")
    /\ UNCHANGED <<otherVars, responses, argv, listing, discovered, acc, searches, emissions,
                   evaluatorFailed, apiCalls, _criteria, _enabledCriteria>>

\* the hit stream of an application's search emits its first hit or completes:
\* take and map turn it into at most one QualityCriterion, the inner streams of
\* the application are then all complete, reduce emits and the report goes out
SearchResponds(a) ==
    /\ inflight[a] # {}
    /\ \E ref \in inflight[a], hits \in HitStreams :
         LET criteria == CHOOSE c \in {_enabledCriteria[1][i] :
                                          i \in 1..Len(_enabledCriteria[1])} :
                             c.reference = ref
             taken    == takeOnlyOne(hits)
             values   == evaluateUsage(hits)
             quality  == acc[a] \o
                 [i \in 1..Len(values) |->
                     QualityCriterion(criteria.description, criteria.reference, values[i])]
             pending  == inflight[a] \ {ref}
             infl     == [inflight EXCEPT ![a] = pending]
             ends     == mergeCompleted(pc = "draining", infl)
         IN  /\ acc' = [acc EXCEPT ![a] = quality]
             /\ responses' = [responses EXCEPT ![a] = Some(taken)]
             /\ inflight' = infl
             /\ pc' = IF ends THEN "complete" ELSE pc
             /\ IF reduceCompleted(pending)
                THEN \E report \in {Report(Applications[a], quality)} :
                     \E r \in {Deliver(Reporter, report, ends, _enabledCriteria[1])} :
                         /\ emissions' = Append(emissions, report)
                         /\ qualityApps' = r.qualityApps
                         /\ stdout' = r.stdout
                ELSE UNCHANGED <<emissions, qualityApps, stdout>>
    /\ UNCHANGED <<otherVars, argv, listing, failure, discovered, searches, cancelled,
                   evaluatorFailed, apiCalls, _criteria, _enabledCriteria>>

\* mutant of SearchFails: the error is caught and the evaluator's stream ends
\* empty, as with catchError(() => EMPTY)
SearchFailsSwallowed(a) ==
    /\ inflight[a] # {}
    /\ evaluatorFailed' = evaluatorFailed \cup {a}
    /\ LET infl   == [inflight EXCEPT ![a] = {}]
           ends   == mergeCompleted(pc = "draining", infl)
           report == Report(Applications[a], acc[a])
           r      == Deliver(Reporter, report, ends, _enabledCriteria[1])
       IN  /\ inflight' = infl
           /\ pc' = IF ends THEN "complete" ELSE pc
           /\ emissions' = Append(emissions, report)
           /\ qualityApps' = r.qualityApps
           /\ stdout' = r.stdout
    /\ UNCHANGED <<otherVars, responses, argv, listing, failure, discovered, acc, searches, cancelled,
                   apiCalls, _criteria, _enabledCriteria>>

\* the search of an application fails: nothing catches the error on its way to
\* the subscriber
SearchFails(a) ==
    /\ inflight[a] # {}
    /\ evaluatorFailed' = evaluatorFailed \cup {a}
    /\ PipelineError("EvaluatorFailure")
    /\ UNCHANGED <<otherVars, responses, argv, listing, discovered, acc, searches, emissions,
                   apiCalls, _criteria, _enabledCriteria>>

Next ==
    \/ definition
    \/ LoginSucceeds
    \/ LoginFails
    \/ EmitApplication
    \/ DiscoveryCompletes
    \/ GetApplicationNotFound
    \/ ListApplicationsTimeout
    \/ \E a \in AppIds : SearchResponds(a)
    \/ \E a \in AppIds : SearchFails(a)

Spec == Init /\ [][Next]_vars

\* the run under scheduling that lets it advance: a callback that is ready
\* runs, and every request made (login, discovery, search) is eventually
\* answered, by a value, a completion or an error
FairSpec == Init /\ [][Next]_vars /\ WF_vars(Next)

-----------------------------------------------------------------------------
(* The registry on its own: getEnabledCriteria() over catalogs other than the *)
(* shipped one (entries added, removed, reordered, disabled, made runtime).   *)

CatalogEntries ==
    { [reference |-> ref, description |-> "", atRuntime |-> rt, enabled |-> en,
       evaluate |-> IF rt THEN "appUsage" ELSE "descriptionMinLength"] :
        ref \in References, rt \in BOOLEAN, en \in BOOLEAN }

\* reference values are unique across a catalog
Catalogs ==
    {q \in SeqsUpTo(CatalogEntries, MaxCriteria) :
        \A i, j \in 1..Len(q) : i # j => q[i].reference # q[j].reference}

InitRegistry ==
    /\ argv \in {av \in Argvs : /\ av.filterById = "" /\ av.elasticsearchUrl
                                /\ av.filterByName = "" /\ av.delayPeriod = 200}
    /\ listing = <<>>
    /\ pc = "registry"
    /\ failure = "none"
    /\ discovered = <<>>
    /\ acc = [a \in AppIds |-> <<>>]
    /\ inflight = [a \in AppIds |-> {}]
    /\ searches = <<>>
    /\ emissions = <<>>
    /\ cancelled = {}
    /\ evaluatorFailed = {}
    /\ apiCalls = <<>>
    /\ qualityApps = <<>>
    /\ stdout = <<>>
    /\ _criteria \in {Some(c) : c \in Catalogs}
    /\ _enabledCriteria = None
    /\ responses = [a \in AppIds |-> None]
    /\ ProbeIdle
    /\ ImportIdle

\* one call of getEnabledCriteria()
CallGetEnabledCriteria ==
    /\ pc = "registry"
    /\ _enabledCriteria' = Some(getEnabledCriteria(_enabledCriteria, _criteria, argv))
    /\ _criteria' = Some(getCriteria(_criteria))
    /\ UNCHANGED <<otherVars, responses, argv, listing, pc, failure, discovered, acc, inflight, searches,
                   emissions, cancelled, evaluatorFailed, apiCalls, qualityApps, stdout>>

NextRegistry == CallGetEnabledCriteria

SpecRegistry == InitRegistry /\ [][NextRegistry]_vars

-----------------------------------------------------------------------------
(* The two local evaluators on their own: each is handed one input and the   *)
(* values its stream emits are recorded.                                     *)

\* Rx.of(value): a stream of one value
RxOf(value) == <<value>>

ProbeAlphabet == {"a", " ", "-"}

Probes ==
    {[kind |-> "name", chars |-> c, length |-> 0] :
        c \in SeqsUpTo(ProbeAlphabet, MaxNameLength) \cup
              {NameChars[n] : n \in DOMAIN NameChars}}
    \cup {[kind |-> "length", chars |-> <<>>, length |-> n] :
              n \in 0..MaxDescriptionLength}

InitEvaluators ==
    /\ probe \in {Some(x) : x \in Probes}
    /\ probeResult = None
    /\ ImportIdle
    /\ argv \in {av \in Argvs : /\ av.filterById = "" /\ av.elasticsearchUrl
                                /\ av.filterByName = "" /\ av.delayPeriod = 200
                                /\ ~av.evaluateRuntime}
    /\ listing = <<>>
    /\ pc = "probe"
    /\ failure = "none"
    /\ discovered = <<>>
    /\ acc = [a \in AppIds |-> <<>>]
    /\ inflight = [a \in AppIds |-> {}]
    /\ searches = <<>>
    /\ emissions = <<>>
    /\ cancelled = {}
    /\ evaluatorFailed = {}
    /\ apiCalls = <<>>
    /\ qualityApps = <<>>
    /\ stdout = <<>>
    /\ _criteria = None
    /\ _enabledCriteria = None
    /\ responses = [a \in AppIds |-> None]

\* evaluateNamingConvention(APP_NAME_REGEX, name), the name given by its characters
ProbeNamingConvention ==
    /\ probe[1].kind = "name"
    /\ probeResult = None
    /\ probeResult' = Some(RxOf(APP_NAME_REGEX(probe[1].chars)))
    /\ UNCHANGED <<qualityVars, importVars, probe>>

\* evaluateMinimumLength(DESCRIPTION_MIN_LENGTH, description.length)
ProbeMinimumLength ==
    /\ probe[1].kind = "length"
    /\ probeResult = None
    /\ probeResult' =
           Some(RxOf(evaluateMinimumLength(DESCRIPTION_MIN_LENGTH, probe[1].length)))
    /\ UNCHANGED <<qualityVars, importVars, probe>>

NextEvaluators == ProbeNamingConvention \/ ProbeMinimumLength

SpecEvaluators == InitEvaluators /\ [][NextEvaluators]_vars

-----------------------------------------------------------------------------
(* The import-api command: ImportApi.definition(managementApi)               *)

\* identifiers of the APIs the management service holds, and the identifiers
\* it may give to an imported API
ApiIds == {"api-1", "api-2", "api-3"}
ImportedIds == ApiIds \cup {"api-created"}

ImportArgvs == {[new |-> n, deploy |-> d] : n \in BOOLEAN, d \in BOOLEAN}

InitImport ==
    /\ importArgv \in {Some(av) : av \in ImportArgvs}
    /\ apiListing \in {q \in SeqsUpTo({[id |-> i] : i \in ApiIds}, MaxApis) : Distinct(q)}
    /\ importPc = "start"
    /\ collected = <<>>
    /\ importCalls = <<>>
    /\ importedApi = None
    /\ displayedError = None
    /\ exitCode = None
    /\ argv \in {av \in Argvs : /\ av.filterById = "" /\ av.elasticsearchUrl
                                /\ av.filterByName = "" /\ av.delayPeriod = 200
                                /\ ~av.evaluateRuntime}
    /\ listing = <<>>
    /\ pc = "idle"
    /\ failure = "none"
    /\ discovered = <<>>
    /\ acc = [a \in AppIds |-> <<>>]
    /\ inflight = [a \in AppIds |-> {}]
    /\ searches = <<>>
    /\ emissions = <<>>
    /\ cancelled = {}
    /\ evaluatorFailed = {}
    /\ apiCalls = <<>>
    /\ qualityApps = <<>>
    /\ stdout = <<>>
    /\ _criteria = None
    /\ _enabledCriteria = None
    /\ responses = [a \in AppIds |-> None]
    /\ ProbeIdle

\* the error callback of the subscriber: displayError, then process.exit(1)
ImportError(message) ==
    /\ importPc' = "error"
    /\ displayedError' = Some(message)
    /\ exitCode' = Some(1)

\* mutant of searchAmbiguous: only an empty result is refused
searchAmbiguousOnlyEmpty(apis) == Len(apis) = 0

\* apis.length !== 1
searchAmbiguous(apis) == Len(apis) # 1

\* the id the file content is imported under: null for a new API, else the id
\* of the API found
importTarget(av, apis) == IF av.new THEN None ELSE Some(apis[1].id)

\* mutant of deployTarget: the id the import was asked for
deployTargetRequested(api, imported) == api

\* managementApi.deploy(importedApi.id)
deployTarget(api, imported) == Some(imported.id)

\* definition(): the pipeline is built and subscribed, which calls login
ImportDefinition ==
    /\ importPc = "start"
    /\ importPc' = "login"
    /\ importCalls' = Append(importCalls, [op |-> "login", id |-> None])
    /\ UNCHANGED <<importArgv, apiListing, collected, importedApi, displayedError,
                   exitCode, qualityVars, probeVars>>

\* login emits the token: a new API needs no search and its file is read, else
\* the APIs are searched
ImportLoginSucceeds ==
    /\ importPc = "login"
    /\ IF importArgv[1].new
       THEN /\ importPc' = "reading"
            /\ UNCHANGED importCalls
       ELSE /\ importPc' = "listing"
            /\ importCalls' = Append(importCalls, [op |-> "listApis", id |-> None])
    /\ UNCHANGED <<importArgv, apiListing, collected, importedApi, displayedError,
                   exitCode, qualityVars, probeVars>>

\* listApis emits one API: toArray() buffers it
ListApisEmits ==
    /\ importPc = "listing"
    /\ Len(collected) < Len(apiListing)
    /\ collected' = Append(collected, apiListing[Len(collected) + 1])
    /\ UNCHANGED <<importArgv, apiListing, importPc, importCalls, importedApi,
                   displayedError, exitCode, qualityVars, probeVars>>

\* listApis completes: toArray() emits the buffer; anything but exactly one API
\* is thrown to the subscriber, else the file is read
ListApisCompletes ==
    /\ importPc = "listing"
    /\ Len(collected) = Len(apiListing)
    /\ IF searchAmbiguous(collected)
       THEN ImportError([kind |-> "ambiguous", found |-> Len(collected)])
       ELSE /\ importPc' = "reading"
            /\ UNCHANGED <<displayedError, exitCode>>
    /\ UNCHANGED <<importArgv, apiListing, collected, importCalls, importedApi,
                   qualityVars, probeVars>>

\* readFile resolves: the second flatMap calls import with the content and the id
ReadFileSucceeds ==
    /\ importPc = "reading"
    /\ importPc' = "importing"
    /\ importCalls' = Append(importCalls,
           [op |-> "import", id |-> importTarget(importArgv[1], collected)])
    /\ UNCHANGED <<importArgv, apiListing, collected, importedApi, displayedError,
                   exitCode, qualityVars, probeVars>>

\* import emits the imported API: with the deploy flag it is deployed, else the
\* pipeline is over
ImportSucceeds ==
    /\ importPc = "importing"
    /\ \E id \in ImportedIds :
         LET imported == [id |-> id]
             api      == importTarget(importArgv[1], collected)
         IN  /\ importedApi' = Some(imported)
             /\ IF ~importArgv[1].deploy
                THEN /\ importPc' = "done"
                     /\ UNCHANGED importCalls
                ELSE /\ importPc' = "deploying"
                     /\ importCalls' = Append(importCalls,
                            [op |-> "deploy", id |-> deployTarget(api, imported)])
    /\ UNCHANGED <<importArgv, apiListing, collected, displayedError, exitCode,
                   qualityVars, probeVars>>

\* deploy emits: the pipeline is over
DeploySucceeds ==
    /\ importPc = "deploying"
    /\ importPc' = "done"
    /\ UNCHANGED <<importArgv, apiListing, collected, importCalls, importedApi,
                   displayedError, exitCode, qualityVars, probeVars>>

\* the request in progress (login, listApis, readFile, import or deploy) fails:
\* the error reaches the subscriber
ImportRequestFails ==
    /\ importPc \in {"login", "listing", "reading", "importing", "deploying"}
    /\ ImportError([kind |-> importPc, found |-> 0])
    /\ UNCHANGED <<importArgv, apiListing, collected, importCalls, importedApi,
                   qualityVars, probeVars>>

NextImport ==
    \/ ImportDefinition
    \/ ImportLoginSucceeds
    \/ ListApisEmits
    \/ ListApisCompletes
    \/ ReadFileSucceeds
    \/ ImportSucceeds
    \/ DeploySucceeds
    \/ ImportRequestFails

SpecImport == InitImport /\ [][NextImport]_vars

-----------------------------------------------------------------------------
(* Notions used to state the properties *)

Elements(q) == {q[i] : i \in 1..Len(q)}

\* strictly ascending by code units
AscendingReferences(refs) ==
    \A i, j \in 1..Len(refs) :
        i < j => LexCompare(CodeUnits[refs[i]], CodeUnits[refs[j]]) < 0

ReferencesOf(q) == [i \in 1..Len(q) |-> q[i].reference]

\* the criterion columns of a raw line: what follows the id and the name
Columns(line) == SubSeq(line, 3, Len(line))

EmittedIds == {emissions[i].app.id : i \in 1..Len(emissions)}

\* position of the first element of q satisfying Test, 0 when there is none
FirstIndex(q, Test(_)) ==
    IF \E i \in 1..Len(q) : Test(q[i])
    THEN CHOOSE i \in 1..Len(q) : Test(q[i]) /\ \A j \in 1..(i - 1) : ~Test(q[j])
    ELSE 0

EmissionIndex(id) == FirstIndex(emissions, LAMBDA e : e.app.id = id)
DiscoveryIndex(id) == FirstIndex(discovered, LAMBDA d : d = id)
\* position among the data rows of the table, the header not counted
RowIndex(id) == FirstIndex(Tail(stdout), LAMBDA line : line[1] = id)

-----------------------------------------------------------------------------
(* Properties *)

\* C1: whenever a table has been written, the header's criterion columns are in
\* ascending reference order and, in every data row, column i is the complied
\* flag that the application's report holds for the criterion named by column i
\* of the header (how many columns a row has is the subject of C2)
HeaderAndRowsSameOrder ==
    stdout # <<>> =>
        /\ AscendingReferences(Columns(stdout[1]))
        /\ \A k \in 2..Len(stdout) :
             \E report \in Elements(emissions) :
               /\ report.app.id = stdout[k][1]
               /\ \A i \in 1..Len(Columns(stdout[k])) :
                    /\ i <= Len(Columns(stdout[1]))
                    /\ \E q \in Elements(report.quality) :
                         /\ q.reference = Columns(stdout[1])[i]
                         /\ q.complied = Columns(stdout[k])[i]

\* C1 witness: a table with three criterion columns and a row whose three
\* flags are not all equal
HeaderAndRowsSameOrderReached ==
    /\ pc = "complete"
    /\ Len(Columns(stdout[1])) = 3
    /\ \E k \in 2..Len(stdout) :
         /\ Len(Columns(stdout[k])) = 3
         /\ Columns(stdout[k])[1] # Columns(stdout[k])[2]
         /\ Columns(stdout[k])[2] # Columns(stdout[k])[3]

\* C2: every emitted report holds exactly one QualityCriterion per enabled
\* criterion: as many entries as the enabled set, the same references, none twice
OneResultPerCriterion ==
    \A report \in Elements(emissions) :
        /\ Len(report.quality) = Len(_enabledCriteria[1])
        /\ Elements(ReferencesOf(report.quality)) =
               Elements(ReferencesOf(_enabledCriteria[1]))

\* C3: the memoized enabled set holds exactly the catalog entries that are enabled
\* and are not runtime unless runtime evaluation is on, each once, in ascending
\* reference order; the sets computed with runtime evaluation on and off differ
\* exactly by the enabled runtime entries
EnabledCriteriaExact ==
    _enabledCriteria # None =>
        LET catalog == _criteria[1]
            enabled == _enabledCriteria[1]
            on  == Elements(getEnabledCriteria(None, _criteria,
                                [argv EXCEPT !.evaluateRuntime = TRUE]))
            off == Elements(getEnabledCriteria(None, _criteria,
                                [argv EXCEPT !.evaluateRuntime = FALSE]))
        IN  /\ Elements(enabled) =
                  {c \in Elements(catalog) :
                      c.enabled /\ (c.atRuntime => argv.evaluateRuntime)}
            /\ Len(enabled) = Cardinality(Elements(enabled))
            /\ AscendingReferences(ReferencesOf(enabled))
            /\ off \subseteq on
            /\ on \ off = {c \in Elements(catalog) : c.enabled /\ c.atRuntime}

\* C3 witness: runtime evaluation is off, the catalog holds an enabled runtime
\* entry, a disabled entry and enabled local entries out of order
EnabledCriteriaExactReached ==
    /\ pc = "registry"
    /\ _enabledCriteria # None
    /\ ~argv.evaluateRuntime
    /\ Len(_criteria[1]) = 3
    /\ \E c \in Elements(_criteria[1]) : c.enabled /\ c.atRuntime
    /\ \E c \in Elements(_criteria[1]) : ~c.enabled
    /\ _enabledCriteria[1] # <<>>
    /\ ~AscendingReferences(ReferencesOf(_criteria[1]))

\* C4: the results of every emitted report are in ascending reference order
ReportResultsAscending ==
    \A report \in Elements(emissions) :
        AscendingReferences(ReferencesOf(report.quality))

\* C4 witness: two applications with an asynchronous evaluator each were
\* discovered in one order and their reports, three results each, were emitted
\* in the other
ReportResultsAscendingReached ==
    /\ Len(emissions) = 2
    /\ Len(emissions[1].quality) = 3
    /\ Len(emissions[2].quality) = 3
    /\ DiscoveryIndex(emissions[1].app.id) > DiscoveryIndex(emissions[2].app.id)

\* C5: a report is emitted at most once per application, only for a discovered
\* application, and not while an evaluator of that application is unresolved
ReportOnceAfterJoin ==
    \A i \in 1..Len(emissions) :
        /\ emissions[i].app.id \in Elements(discovered)
        /\ inflight[emissions[i].app.id] = {}
        /\ \A j \in 1..Len(emissions) :
             i # j => emissions[i].app.id # emissions[j].app.id

\* C5 witness: a report was emitted for an application whose search had been
\* issued, while another discovered application is still being evaluated
ReportOnceAfterJoinReached ==
    \E a, b \in AppIds :
        /\ a \in EmittedIds
        /\ \E i \in 1..Len(searches) : searches[i].terms[2] = a
        /\ inflight[b] # {}

\* C6: nothing is written raw before the pipeline completes; once it has
\* completed the output is the header followed by one row per report, in the
\* order the reports were emitted to the sink
TableOnlyOnCompletion ==
    /\ pc \in {"start", "login", "discovery", "draining"} => stdout = <<>>
    /\ pc = "complete" =>
         /\ Len(stdout) = 1 + Len(emissions)
         /\ stdout[1][1] = "Application id"
         /\ stdout[1][2] = "Application name"
         /\ \A i \in 1..Len(emissions) :
              /\ stdout[i + 1][1] = emissions[i].app.id
              /\ stdout[i + 1][2] = emissions[i].app.name

\* C6 witness: a completed run whose table has two rows
TableOnlyOnCompletionReached ==
    pc = "complete" /\ Len(stdout) = 3 /\ Len(emissions) = 2

\* C7: once the pipeline has failed nothing has been, or is ever, written raw
NoTableOnFailure ==
    failure # "none" => pc = "error" /\ stdout = <<>>

\* C7 witness: an evaluator failure after the sink had accumulated a report
NoTableOnFailureReached ==
    failure = "EvaluatorFailure" /\ qualityApps # <<>> /\ stdout = <<>>

\* C8: when an evaluator of an application has failed, that application has no
\* report, its search was issued once only, the run is in its error state and no
\* table was written
EvaluatorFailureAborts ==
    \A a \in evaluatorFailed :
        /\ a \notin EmittedIds
        /\ Cardinality({i \in 1..Len(searches) : searches[i].terms[2] = a}) <= 1
        /\ pc = "error"
        /\ failure = "EvaluatorFailure"
        /\ stdout = <<>>

\* C8 witness: the search of one application failed after the report of another
\* had reached the sink
EvaluatorFailureAbortsReached ==
    /\ evaluatorFailed # {}
    /\ searches # <<>>
    /\ qualityApps # <<>>

\* C9 as claimed: after the discovery timeout every evaluation that was issued
\* and has not delivered its report is still in flight
TimeoutKeepsEvaluations ==
    failure = "Timeout" =>
        \A i \in 1..Len(searches) :
            searches[i].terms[2] \notin EmittedIds => inflight[searches[i].terms[2]] # {}

\* C9 as amended: the discovery timeout ends the whole pipeline: no evaluation
\* stays in flight and no application whose evaluation was in flight gets a report
TimeoutCancelsEvaluations ==
    failure = "Timeout" =>
        /\ \A a \in AppIds : inflight[a] = {}
        /\ \A a \in cancelled : a \notin EmittedIds
        /\ \A i \in 1..Len(searches) :
             searches[i].terms[2] \notin EmittedIds => searches[i].terms[2] \in cancelled

\* C9 witness: the timeout fired while an evaluation was in flight
TimeoutCancelsEvaluationsReached ==
    failure = "Timeout" /\ cancelled # {}

\* both rows of a finished table give, column by column, the flags of the same
\* criteria in their reports
SameColumnOrder(a, b) ==
    \A i \in 1..Len(emissions[EmissionIndex(a)].quality) :
        \A j \in 1..Len(emissions[EmissionIndex(b)].quality) :
            i = j => emissions[EmissionIndex(a)].quality[i].reference =
                         emissions[EmissionIndex(b)].quality[j].reference

\* A was discovered before B and B's report was emitted before A's
ResolvedOutOfOrder(a, b) ==
    /\ pc = "complete"
    /\ DiscoveryIndex(a) # 0
    /\ DiscoveryIndex(a) < DiscoveryIndex(b)
    /\ EmissionIndex(b) < EmissionIndex(a)

\* C10 as claimed: A's row is then before B's row
RowsInDiscoveryOrder ==
    \A a, b \in AppIds :
        ResolvedOutOfOrder(a, b) => RowIndex(a) < RowIndex(b) /\ SameColumnOrder(a, b)

\* C10 as amended: B's row is then before A's row (rows are in the order the
\* reports reached the sink), and both rows have their columns in the same order
RowsInArrivalOrder ==
    \A a, b \in AppIds :
        ResolvedOutOfOrder(a, b) =>
            /\ RowIndex(b) # 0
            /\ RowIndex(b) < RowIndex(a)
            /\ SameColumnOrder(a, b)

\* C10 witness: a finished table of two applications resolved out of order
RowsInArrivalOrderReached ==
    \E a, b \in AppIds : ResolvedOutOfOrder(a, b) /\ Len(stdout) = 3

\* number of calls of an operation made to the management API
CallCount(op) == Cardinality({i \in 1..Len(apiCalls) : apiCalls[i].op = op})

\* login has emitted its token
LoginPassed ==
    pc \in {"discovery", "draining", "complete"} \/
        (pc = "error" /\ failure # "AuthFailure")

\* C11: when login has failed the only call ever made to the management API is
\* login: no application was fetched or listed, no evaluator was invoked, no
\* search was issued, no report exists and nothing was written
LoginFailureAbortsBeforeDiscovery ==
    failure = "AuthFailure" =>
        /\ apiCalls = <<[op |-> "login"]>>
        /\ discovered = <<>>
        /\ \A a \in AppIds : acc[a] = <<>> /\ inflight[a] = {}
        /\ searches = <<>>
        /\ emissions = <<>>
        /\ qualityApps = <<>>
        /\ stdout = <<>>
        /\ pc = "error"

\* C11 witness: the run ended on a login failure
LoginFailureAbortsBeforeDiscoveryReached ==
    failure = "AuthFailure" /\ pc = "error" /\ Len(listing) = 2

\* C12: with an identifier filter there is one getApplication call with that
\* identifier once login has passed, never a listApplications call, and a miss
\* can only end the run with NotFound; without it there is one listApplications
\* call once login has passed, with the name filter, the configured delay period
\* and the timeout 30000, and never a getApplication call
DiscoveryModeSelection ==
    /\ argv.filterById # "" =>
         /\ CallCount("listApplications") = 0
         /\ CallCount("getApplication") = IF LoginPassed THEN 1 ELSE 0
         /\ \A i \in 1..Len(apiCalls) :
              apiCalls[i].op = "getApplication" => apiCalls[i].id = argv.filterById
         /\ argv.filterById \notin AppIds =>
              /\ pc # "complete"
              /\ discovered = <<>>
              /\ failure \in {"none", "AuthFailure", "NotFound"}
    /\ argv.filterById = "" =>
         /\ CallCount("getApplication") = 0
         /\ CallCount("listApplications") = IF LoginPassed THEN 1 ELSE 0
         /\ failure # "NotFound"
         /\ \A i \in 1..Len(apiCalls) :
              apiCalls[i].op = "listApplications" =>
                  /\ apiCalls[i].byName = argv.filterByName
                  /\ apiCalls[i].delayPeriod = argv.delayPeriod
                  /\ apiCalls[i].timeout = 30000

\* C12 witness: a run by identifier that missed and failed with NotFound after
\* its single fetch
DiscoveryModeSelectionReached ==
    /\ failure = "NotFound"
    /\ CallCount("getApplication") = 1
    /\ argv.filterById \notin AppIds

IsWord(s) == s # <<>> /\ \A i \in 1..Len(s) : s[i] \in WordChars

\* one or more words, one space between neighbours
IsWords(s) ==
    /\ s # <<>>
    /\ s[1] \in WordChars
    /\ s[Len(s)] \in WordChars
    /\ \A i \in 1..Len(s) : s[i] \in WordChars \cup {" "}
    /\ \A i \in 1..(Len(s) - 1) : ~(s[i] = " " /\ s[i + 1] = " ")

Separator == <<" ", "-", " ">>

\* an optional namespace block followed by " - " (the first a characters), then
\* one or more words (up to character b), then an optional " - country" suffix
FollowsNamingConvention(s) ==
    \E a \in 0..Len(s) : \E b \in a..Len(s) :
        /\ \/ a = 0
           \/ /\ a >= 4
              /\ IsWords(SubSeq(s, 1, a - 3))
              /\ SubSeq(s, a - 2, a) = Separator
        /\ IsWords(SubSeq(s, a + 1, b))
        /\ \/ b = Len(s)
           \/ /\ b + 4 <= Len(s)
              /\ SubSeq(s, b + 1, b + 3) = Separator
              /\ IsWord(SubSeq(s, b + 4, Len(s)))

\* C15: the naming-convention evaluator's stream emits exactly one value, true
\* exactly for the names that follow the convention; the application named
\* "Billing - Invoicing - FR" complies and the one named "invalid_name!" does not
NamingConventionExact ==
    /\ (probe # None /\ probe[1].kind = "name" /\ probeResult # None) =>
           probeResult[1] = <<FollowsNamingConvention(probe[1].chars)>>
    /\ evaluateNamingConvention("Billing - Invoicing - FR")
    /\ ~evaluateNamingConvention("invalid_name!")

\* C15 witness: the evaluator has emitted true for a name of three blocks
NamingConventionExactReached ==
    /\ probe # None
    /\ probe[1].kind = "name"
    /\ probe[1].chars = <<"a", " ", "-", " ", "a", " ", "-", " ", "a">>
    /\ probeResult = Some(<<TRUE>>)

\* the searches issued for an application
SearchesOf(a) == {i \in 1..Len(searches) : searches[i].terms = <<"application", a>>}

\* C14: with runtime evaluation on, exactly one search was issued for every
\* discovered application, on the configured index and window and asking for at
\* most one result, and every APP-R00 result is true exactly when the total
\* reported by the hit received for that application is greater than zero
UsageEvaluatorExact ==
    argv.evaluateRuntime =>
        \A a \in Elements(discovered) :
            /\ Cardinality(SearchesOf(a)) = 1
            /\ \A i \in SearchesOf(a) :
                 /\ searches[i].index = argv.elasticsearchIndex
                 /\ searches[i].from = argv.evaluateRuntimeFrom
                 /\ searches[i].to = argv.evaluateRuntimeTo
                 /\ searches[i].pageSize <= 1
            /\ \A report \in Elements(emissions) : \A q \in Elements(report.quality) :
                 (report.app.id = a /\ q.reference = "APP-R00") =>
                     /\ responses[a] # None
                     /\ responses[a][1] # <<>>
                     /\ q.complied = (responses[a][1][1].meta.total > 0)

\* what a call of getEnabledCriteria() made in the next state would return
NextCallReturns == getEnabledCriteria(_enabledCriteria', _criteria', argv')

\* C16: once set, the memoized catalog and the memoized enabled criteria never
\* change and a further call of getEnabledCriteria() returns the criteria of the
\* first call in the same order; the header and the results of every report
\* come from that one set
MemoComputedOnce ==
    [][ /\ _criteria # None => _criteria' = _criteria
        /\ _enabledCriteria # None =>
              /\ _enabledCriteria' = _enabledCriteria
              /\ NextCallReturns = _enabledCriteria[1]
        /\ stdout' # <<>> =>
              /\ _enabledCriteria' # None
              /\ Columns(stdout'[1]) = ReferencesOf(_enabledCriteria'[1])
        /\ \A report \in Elements(emissions') :
              /\ _enabledCriteria' # None
              /\ Elements(ReferencesOf(report.quality)) \subseteq
                     Elements(ReferencesOf(_enabledCriteria'[1])) ]_vars

\* two applications went through discovery, evaluation (one search each) and
\* the sink, and the table was written
MemoComputedOnceReached ==
    /\ pc = "complete"
    /\ Len(discovered) = 2
    /\ Len(emissions) = 2
    /\ Len(searches) = 2
    /\ Len(stdout) = 3
    /\ _enabledCriteria = Some(CriteriaLiteral)

\* the references of the catalog's runtime criteria: APP-R00
RuntimeReferences ==
    {CriteriaLiteral[i].reference :
        i \in {j \in 1..Len(CriteriaLiteral) : CriteriaLiteral[j].atRuntime}}

\* C18: when runtime evaluation is disabled for the run, no search has been
\* issued or is awaited for any application, and neither a report nor the
\* header of the table names a runtime criterion
RuntimeDisabledNeverSearches ==
    ~argv.evaluateRuntime =>
        /\ searches = <<>>
        /\ \A a \in AppIds : inflight[a] = {} /\ responses[a] = None
        /\ \A report \in Elements(emissions) :
               Elements(ReferencesOf(report.quality)) \cap RuntimeReferences = {}
        /\ stdout # <<>> => Elements(stdout[1]) \cap RuntimeReferences = {}

\* a run with runtime evaluation disabled evaluated two applications and wrote
\* its table
RuntimeDisabledNeverSearchesReached ==
    /\ ~argv.evaluateRuntime
    /\ pc = "complete"
    /\ Len(emissions) = 2
    /\ Len(stdout) = 3
    /\ \A report \in Elements(emissions) : Len(report.quality) = 2

\* the header lines written so far: one per completion of the sink
Headers == {i \in 1..Len(stdout) : stdout[i][1] = "Application id"}

\* the data rows written for an application
RowsOf(a) == {i \in 1..Len(stdout) : stdout[i][1] = a}

\* the sink has completed once, after the report of every discovered
\* application reached it, and the table has one row per discovered application
CompletedTable ==
    /\ pc = "complete"
    /\ Headers = {1}
    /\ Elements(discovered) = {qualityApps[i].app.id : i \in 1..Len(qualityApps)}
    /\ Len(qualityApps) = Len(discovered)
    /\ Len(stdout) = 1 + Len(discovered)
    /\ \A a \in Elements(discovered) : Cardinality(RowsOf(a)) = 1

\* C17: unless login, discovery or an evaluator fails, the sink eventually
\* completes; it completes at most once, and whenever it has completed or
\* written anything the report of every discovered application had been
\* delivered and the table is the header plus exactly one row per discovered
\* application (the header alone when none was discovered)
SinkEventuallyCompletesOnce ==
    /\ <>(failure # "none" \/ CompletedTable)
    /\ []((pc = "complete" \/ stdout # <<>>) => CompletedTable)
    /\ [][stdout # <<>> => stdout' = stdout]_vars

\* discovery completed while the searches of two applications were in flight,
\* the second answered first, and the table has both rows
SinkEventuallyCompletesOnceReached ==
    /\ CompletedTable
    /\ failure = "none"
    /\ Len(discovered) = 2
    /\ Len(searches) = 2
    /\ emissions[1].app.id = discovered[2]
    /\ emissions[2].app.id = discovered[1]

\* no application was discovered and the table is the header alone
HeaderOnlyTableReached ==
    /\ CompletedTable
    /\ discovered = <<>>
    /\ Len(stdout) = 1

\* positions in the log of the import-api command of the calls of an operation
ImportOps(op) == {i \in 1..Len(importCalls) : importCalls[i].op = op}

\* C19: without the new flag, an import call is made only when the search has
\* been collected in full and returned exactly one API, and with that API's id;
\* when the search returns no API or more than one, import and deploy are never
\* called and, once the search is over, the run is in its error state with
\* process.exit(1) called
ImportOnlyOnSingleResult ==
    ~importArgv[1].new =>
        /\ \A i \in ImportOps("import") :
               /\ collected = apiListing
               /\ Len(collected) = 1
               /\ importCalls[i].id = Some(collected[1].id)
        /\ Len(apiListing) # 1 =>
               /\ ImportOps("import") = {}
               /\ ImportOps("deploy") = {}
               /\ importPc \notin {"start", "login", "listing"} =>
                      /\ importPc = "error"
                      /\ displayedError # None
                      /\ exitCode # None
                      /\ exitCode[1] # 0

\* the search returned one API and import was called with its id
ImportOnlyOnSingleResultReached ==
    /\ ~importArgv[1].new
    /\ Len(apiListing) = 1
    /\ \E i \in ImportOps("import") : importCalls[i].id = Some(apiListing[1].id)

\* the search returned two APIs and the run ended in error
AmbiguousSearchRefusedReached ==
    /\ ~importArgv[1].new
    /\ Len(collected) = 2
    /\ displayedError = Some([kind |-> "ambiguous", found |-> 2])
    /\ exitCode = Some(1)

\* the search returned no API and the run ended in error
EmptySearchRefusedReached ==
    /\ ~importArgv[1].new
    /\ apiListing = <<>>
    /\ displayedError = Some([kind |-> "ambiguous", found |-> 0])
    /\ exitCode = Some(1)

\* C20: deploy is called at most once, only with the deploy flag set, only
\* after an import call whose API has been emitted, and with the id of that
\* API; with the new flag no search is issued and import is called with a null
\* id; without the deploy flag deploy is never called
DeployOnlyAfterImport ==
    /\ \A i \in ImportOps("deploy") :
           /\ importArgv[1].deploy
           /\ \E j \in ImportOps("import") : j < i
           /\ importedApi # None
           /\ importCalls[i].id = Some(importedApi[1].id)
    /\ Cardinality(ImportOps("deploy")) <= 1
    /\ importArgv[1].new =>
           /\ ImportOps("listApis") = {}
           /\ \A i \in ImportOps("import") : importCalls[i].id = None
    /\ ~importArgv[1].deploy => ImportOps("deploy") = {}

\* a new API was imported with a null id, without any search, and deployed
\* under the id the import returned
DeployOnlyAfterImportReached ==
    /\ importArgv[1].new
    /\ importArgv[1].deploy
    /\ importPc = "done"
    /\ importCalls = << [op |-> "login", id |-> None],
                        [op |-> "import", id |-> None],
                        [op |-> "deploy", id |-> Some("api-created")] >>

\* an API found by the search was imported and, without the deploy flag, the
\* run ended without a deploy call
ImportWithoutDeployReached ==
    /\ ~importArgv[1].new
    /\ ~importArgv[1].deploy
    /\ importPc = "done"
    /\ ImportOps("import") # {}
    /\ ImportOps("deploy") = {}

=============================================================================
